---- MODULE Spec2Model ----
(***************************************************************************)
(* Model of the project and export tools that the Blockbench MCP plugin    *)
(* registers (src/server/tools/project.ts and the export tools file).      *)
(* Strings are sequences of one-character strings so that endsWith,        *)
(* replace, extname, toLowerCase and parseInt are computed as JavaScript   *)
(* computes them.                                                          *)
(***************************************************************************)
EXTENDS Integers, Sequences, FiniteSets, TLC

VARIABLES
    projects,   \* ModelProject.all: the host's open projects, a sequence of UUIDs
    active,     \* Project: the UUID of the active project, or None
    inv,        \* the handler invocations in flight, one frame per slot
    pending,    \* number of requests the agent has sent that are not dispatched yet
    arg,        \* the input of the operation under study (pure-function specifications)
    ret         \* the outcome of that operation

vars == <<projects, active, inv, pending, arg, ret>>

None == <<"None">>

\* ------------------------------------------------------------------ bounds
MaxPieces == 3      \* pieces concatenated into an export path
MaxProjects == 2    \* open projects the host holds
MaxInv == 2         \* requests the agent has outstanding at once
MaxDepth == 2       \* nesting depth of the scanned folder tree

\* ----------------------------------------------------------------- strings
S_dot == <<".">>
S_slash == <<"/">>
S_m == <<"m">>
S_json == <<".", "j", "s", "o", "n">>
S_JSON == <<".", "J", "S", "O", "N">>
S_geo == <<".", "g", "e", "o">>
S_geojson == S_geo \o S_json
S_bbmodel == <<".", "b", "b", "m", "o", "d", "e", "l">>
S_BBMODEL == <<".", "B", "B", "M", "O", "D", "E", "L">>
S_mcmodel == <<".", "m", "c", "m", "o", "d", "e", "l">>
S_jem == <<".", "j", "e", "m">>
S_jpm == <<".", "j", "p", "m">>
S_txt == <<".", "t", "x", "t">>

\* String.prototype.endsWith
EndsWith(s, suf) ==
    /\ Len(s) >= Len(suf)
    /\ SubSeq(s, Len(s) - Len(suf) + 1, Len(s)) = suf

\* String.prototype.indexOf, 1-based; 0 when pat does not occur
IndexOf(s, pat) ==
    LET hits == {i \in 1..(Len(s) - Len(pat) + 1) : SubSeq(s, i, i + Len(pat) - 1) = pat}
    IN  IF hits = {} THEN 0 ELSE CHOOSE i \in hits : \A j \in hits : i <= j

\* String.prototype.replace with a string pattern: the FIRST occurrence only
ReplaceFirst(s, pat, rep) ==
    LET i == IndexOf(s, pat)
    IN  IF i = 0 THEN s
        ELSE SubSeq(s, 1, i - 1) \o rep \o SubSeq(s, i + Len(pat), Len(s))

\* String.prototype.toLowerCase on the letters the model uses
LowerChar(c) ==
    CASE c = "J" -> "j" [] c = "S" -> "s" [] c = "O" -> "o" [] c = "N" -> "n"
      [] c = "B" -> "b" [] c = "M" -> "m" [] c = "D" -> "d" [] c = "E" -> "e"
      [] c = "L" -> "l" [] c = "G" -> "g"
      [] OTHER -> c

ToLowerCase(s) == [i \in 1..Len(s) |-> LowerChar(s[i])]

\* path.basename for a path without trailing slashes
Basename(p) ==
    LET sl == {i \in 1..Len(p) : p[i] = "/"}
        last == IF sl = {} THEN 0 ELSE CHOOSE i \in sl : \A j \in sl : i >= j
    IN  SubSeq(p, last + 1, Len(p))

\* path.extname (posix) for a path without trailing slashes: from the last dot
\* of the base name, "" when there is no dot, when the only dot leads the base
\* name, or when the base name is ".."
ExtName(p) ==
    LET b == Basename(p)
        dots == {i \in 1..Len(b) : b[i] = "."}
        startDot == IF dots = {} THEN 0 ELSE CHOOSE i \in dots : \A j \in dots : i >= j
    IN  IF startDot <= 1 \/ b = <<".", ".">> THEN <<>>
        ELSE SubSeq(b, startDot, Len(b))

\* path.dirname (posix)
Dirname(p) ==
    LET cut == {i \in 2..Len(p) : p[i] = "/" /\ \E j \in (i + 1)..Len(p) : p[j] # "/"}
        end == IF cut = {} THEN 0 ELSE CHOOSE i \in cut : \A j \in cut : i >= j
        hasRoot == Len(p) > 0 /\ p[1] = "/"
    IN  IF end = 0 THEN (IF hasRoot THEN S_slash ELSE S_dot)
        ELSE IF hasRoot /\ end = 2 THEN <<"/", "/">>
        ELSE SubSeq(p, 1, end - 1)

\* path.join(dir, name) for a non-empty dir without trailing slash
PathJoin(dir, name) == dir \o S_slash \o name

\* ------------------------------------------------------- export_geo_json
\* The three-way conditional that picks the file to write.
NormalizeExportPath(path) ==
    IF EndsWith(path, S_geojson) THEN path
    ELSE IF EndsWith(path, S_json) THEN ReplaceFirst(path, S_json, S_geojson)
    ELSE path \o S_geojson

ExportPieces == {S_m, S_slash, S_json, S_geo, S_dot}

RECURSIVE PathsOf(_)
PathsOf(n) ==
    IF n = 0 THEN {<<>>}
    ELSE LET P == PathsOf(n - 1) IN P \cup {p \o q : p \in P, q \in ExportPieces}

ExportPaths == PathsOf(MaxPieces)

NoRet == [status |-> "none"]

\* export_geo_json.execute as one step: the guards, the path normalisation,
\* the directory creation and the write.
ExportGeoJson ==
    /\ arg.op = "export_geo_json"
    /\ ret = NoRet
    /\ ret' =
         IF active = None
           THEN [status |-> "error", msg |-> "No project is currently open"]
         ELSE IF ~arg.bedrock
           THEN [status |-> "error", msg |-> "Bedrock codec is not available"]
         ELSE IF arg.compiled = "empty"
           THEN [status |-> "error", msg |-> "Failed to compile"]
         ELSE LET filePath == NormalizeExportPath(arg.path)
              IN  [status |-> "ok",
                   written |-> filePath,
                   mkdir |-> IF arg.dirExists THEN None ELSE Dirname(filePath)]
    /\ UNCHANGED <<projects, active, inv, pending, arg>>

UUID_a == <<"a", "7">>

InitExport ==
    /\ \E hasProject \in BOOLEAN :
         /\ projects = IF hasProject THEN <<UUID_a>> ELSE <<>>
         /\ active = IF hasProject THEN UUID_a ELSE None
    /\ inv = <<>>
    /\ pending = 0
    /\ arg \in [op : {"export_geo_json"}, path : ExportPaths, bedrock : BOOLEAN,
                compiled : {"string", "object", "empty"}, dirExists : BOOLEAN]
    /\ ret = NoRet

NextExport == ExportGeoJson

SpecExport == InitExport /\ [][NextExport]_vars

\* C2: the path export_geo_json writes to always ends with ".geo.json"; a
\* path ending in ".geo.json" is used unchanged, a trailing ".json" is replaced
\* by ".geo.json" with nothing else changed, any other path gets ".geo.json"
\* appended, and normalising a normalised path changes nothing.
C2_ExportPathNormalized ==
    (ret.status = "ok") =>
        /\ EndsWith(ret.written, S_geojson)
        /\ EndsWith(arg.path, S_geojson) => ret.written = arg.path
        /\ (EndsWith(arg.path, S_json) /\ ~EndsWith(arg.path, S_geojson)) =>
              ret.written = SubSeq(arg.path, 1, Len(arg.path) - Len(S_json)) \o S_geojson
        /\ ~EndsWith(arg.path, S_json) => ret.written = arg.path \o S_geojson
        /\ NormalizeExportPath(ret.written) = ret.written

\* ------------------------------------------------------- format resolver
\* What the handlers read of JSON.parse's result: whether it is null, and the
\* truthiness of the keys the resolver tests.
NullContent ==
    [isNull |-> TRUE, tag |-> "absent", geo |-> FALSE, ver |-> FALSE,
     elements |-> "absent", textures |-> FALSE]

Contents ==
    {NullContent} \cup
    [isNull : {FALSE},
     tag : {"absent", "known", "unknown"},   \* meta.model_format: none, a key of Formats, another string
     geo : BOOLEAN,                          \* parsed["minecraft:geometry"] truthy
     ver : BOOLEAN,                          \* parsed.format_version truthy
     elements : {"absent", "falsy", "truthy"},
     textures : BOOLEAN]

Binding(c, f) == [kind |-> "binding", codec |-> c, format |-> f]
ResolveError(m) == [kind |-> "error", msg |-> m]

\* Formats[parsed.meta?.model_format] ?? Formats.free
TaggedFormat(parsed) == IF parsed.tag = "known" THEN "tagged" ELSE "free"

\* the resolver with the legacy branch falling back instead of failing
ResolveOpenProject_LegacyFallsBack(path, parsed, optifine) ==
    LET ext == ToLowerCase(ExtName(path))
    IN  IF parsed.isNull THEN ResolveError("TypeError")
        ELSE IF ext = S_bbmodel \/ parsed.tag # "absent"
          THEN Binding("project", TaggedFormat(parsed))
        ELSE IF ext = S_geojson \/ parsed.geo \/ parsed.ver
          THEN Binding("bedrock", "bedrock")
        ELSE IF ext = S_json /\ (parsed.elements = "truthy" \/ parsed.textures)
          THEN Binding("java_block", "java_block")
        ELSE IF (ext = S_jem \/ ext = S_jpm) /\ optifine
          THEN Binding("optifine_entity", "optifine_entity")
        ELSE Binding("project", "free")

\* the resolver with the block/item-model test looking at textures only
ResolveOpenProject_TexturesOnly(path, parsed, optifine) ==
    LET ext == ToLowerCase(ExtName(path))
    IN  IF parsed.isNull THEN ResolveError("TypeError")
        ELSE IF ext = S_bbmodel \/ parsed.tag # "absent"
          THEN Binding("project", TaggedFormat(parsed))
        ELSE IF ext = S_geojson \/ parsed.geo \/ parsed.ver
          THEN Binding("bedrock", "bedrock")
        ELSE IF ext = S_json /\ parsed.textures
          THEN Binding("java_block", "java_block")
        ELSE IF ext = S_jem \/ ext = S_jpm
          THEN IF optifine THEN Binding("optifine_entity", "optifine_entity")
               ELSE ResolveError("OptiFine codec is not available")
        ELSE Binding("project", "free")

\* open_project: the if / else-if chain that picks codec and format, on the
\* lower-cased path.extname of the path.
ResolveOpenProject(path, parsed, optifine) ==
    LET ext == ToLowerCase(ExtName(path))
    IN  IF parsed.isNull THEN ResolveError("TypeError")
        ELSE IF ext = S_bbmodel \/ parsed.tag # "absent"
          THEN Binding("project", TaggedFormat(parsed))
        ELSE IF ext = S_geojson \/ parsed.geo \/ parsed.ver
          THEN Binding("bedrock", "bedrock")
        ELSE IF ext = S_json /\ (parsed.elements = "truthy" \/ parsed.textures)
          THEN Binding("java_block", "java_block")
        ELSE IF ext = S_jem \/ ext = S_jpm
          THEN IF optifine THEN Binding("optifine_entity", "optifine_entity")
               ELSE ResolveError("OptiFine codec is not available")
        ELSE Binding("project", "free")

\* open_projects_from_folder: the per-file chain; the first two tests use
\* filePath.endsWith, the others the lower-cased extname.
ResolveFolderFile(filePath, parsed, optifine) ==
    LET ext == ToLowerCase(ExtName(filePath))
    IN  IF parsed.isNull THEN ResolveError("TypeError")
        ELSE IF EndsWith(filePath, S_bbmodel) \/ parsed.tag # "absent"
          THEN Binding("project", TaggedFormat(parsed))
        ELSE IF EndsWith(filePath, S_geojson) \/ parsed.geo \/ parsed.ver
          THEN Binding("bedrock", "bedrock")
        ELSE IF ext = S_json /\ (parsed.elements = "truthy" \/ parsed.textures)
          THEN Binding("java_block", "java_block")
        ELSE IF ext = S_jem \/ ext = S_jpm
          THEN IF optifine THEN Binding("optifine_entity", "optifine_entity")
               ELSE ResolveError("OptiFine codec not available")
        ELSE Binding("project", "free")

ResolverStems == {<<>>, S_m, S_m \o S_geo, <<"d">> \o S_json \o S_slash \o S_m, <<"d", "/">>}
ResolverSuffixes ==
    {<<>>, S_json, S_JSON, S_geojson, S_bbmodel, S_BBMODEL, S_jem, S_jpm, S_mcmodel, S_txt}

\* File paths: non-empty, not ending in a slash
ResolverPaths ==
    {p \in {st \o su : st \in ResolverStems, su \in ResolverSuffixes} :
        Len(p) > 0 /\ p[Len(p)] # "/"}

NotRun == [kind |-> "none"]

InitResolve ==
    /\ projects = <<>>
    /\ active = None
    /\ inv = <<>>
    /\ pending = 0
    /\ arg \in [op : {"resolve"}, path : ResolverPaths, parsed : Contents, optifine : BOOLEAN]
    /\ ret = [open |-> NotRun, folder |-> NotRun]

\* the resolution step of open_project on (path, parsed)
OpenProjectResolves ==
    /\ arg.op = "resolve"
    /\ ret.open = NotRun
    /\ ret' = [ret EXCEPT !.open = ResolveOpenProject(arg.path, arg.parsed, arg.optifine)]
    /\ UNCHANGED <<projects, active, inv, pending, arg>>

\* the resolution step of open_projects_from_folder on the same file
FolderFileResolves ==
    /\ arg.op = "resolve"
    /\ ret.folder = NotRun
    /\ ret' = [ret EXCEPT !.folder = ResolveFolderFile(arg.path, arg.parsed, arg.optifine)]
    /\ UNCHANGED <<projects, active, inv, pending, arg>>

NextResolve == OpenProjectResolves \/ FolderFileResolves

SpecResolve == InitResolve /\ [][NextResolve]_vars

Untagged(parsed) == ~parsed.isNull /\ parsed.tag = "absent"

\* C3: a file whose path ends in ".geo.json" and whose content carries no
\* format tag is bound to the bedrock codec and format by both tools.
C3_GeoSuffixBindsBedrock ==
    (EndsWith(arg.path, S_geojson) /\ Untagged(arg.parsed)) =>
        /\ ret.open # NotRun => ret.open = Binding("bedrock", "bedrock")
        /\ ret.folder # NotRun => ret.folder = Binding("bedrock", "bedrock")

\* C5 as stated: the resolution step of open_project always ends with a
\* binding, never with an error.
C5_ResolverTotal ==
    ret.open # NotRun => ret.open.kind = "binding"

\* the path has a legacy entity-model suffix that extname reports
LegacySuffix(path) ==
    LET low == ToLowerCase(path)
    IN  /\ EndsWith(low, S_jem) \/ EndsWith(low, S_jpm)
        /\ Len(Basename(path)) > Len(S_jem)

\* C5 amended: the resolution step of open_project ends with a binding,
\* except that it ends in an error exactly when the parsed content is null, or
\* the path has the suffix .jem or .jpm, the content has no format tag,
\* geometry marker or version marker, and the host has no OptiFine codec.
C5_ResolverTotalButLegacy ==
    ret.open # NotRun =>
        /\ ret.open.kind \in {"binding", "error"}
        /\ ret.open.kind = "error" <=>
              \/ arg.parsed.isNull
              \/ /\ LegacySuffix(arg.path)
                 /\ Untagged(arg.parsed) /\ ~arg.parsed.geo /\ ~arg.parsed.ver
                 /\ ~arg.optifine

C5_Witness ==
    /\ ret.open # NotRun /\ ~arg.parsed.isNull
    /\ LegacySuffix(arg.path) /\ ~arg.optifine
    /\ ret.open.kind = "error"

\* C6 as stated: a path ending in ".json" whose content has an elements key
\* resolves to the java_block codec and format in open_project.
C6_JsonElementsJavaBlock ==
    (ret.open # NotRun /\ EndsWith(arg.path, S_json) /\ ~arg.parsed.isNull
        /\ arg.parsed.elements # "absent") =>
        ret.open = Binding("java_block", "java_block")

\* C6 amended: a path ending in ".json" (not ".geo.json", base name longer
\* than the suffix) whose content has a truthy elements value and no format
\* tag, geometry marker or version marker resolves to java_block, not to the
\* generic project codec.
C6_PlainJsonElementsJavaBlock ==
    (/\ ret.open # NotRun
     /\ EndsWith(arg.path, S_json) /\ ~EndsWith(arg.path, S_geojson)
     /\ Len(Basename(arg.path)) > Len(S_json)
     /\ Untagged(arg.parsed) /\ ~arg.parsed.geo /\ ~arg.parsed.ver
     /\ arg.parsed.elements = "truthy") =>
        /\ ret.open = Binding("java_block", "java_block")
        /\ ret.open.codec # "project"

C6_Witness ==
    /\ ret.open = Binding("java_block", "java_block")
    /\ EndsWith(arg.path, S_json) /\ ~EndsWith(arg.path, S_geojson)
    /\ arg.parsed.elements = "truthy" /\ ~arg.parsed.textures

\* the resolution ended reporting the legacy (OptiFine) codec as unavailable
LegacyUnavailable(r) ==
    r.kind = "error" /\ r.msg \in {"OptiFine codec is not available", "OptiFine codec not available"}

\* C12: on the same path, parsed content and host, open_project and the
\* per-file step of open_projects_from_folder choose the same codec and
\* format, and one reports the legacy codec as unavailable exactly when the
\* other does.
C12_ResolversAgree ==
    (ret.open # NotRun /\ ret.folder # NotRun) =>
        /\ ret.open.kind = ret.folder.kind
        /\ ret.open.kind = "binding" => ret.open = ret.folder
        /\ LegacyUnavailable(ret.open) <=> LegacyUnavailable(ret.folder)

\* ------------------------------------------------------ directory scanner
PROJECT_EXTENSIONS == {S_bbmodel, S_json, S_geojson, S_mcmodel, S_jem, S_jpm}

FileEntry(n) == [name |-> n, kind |-> "file", children |-> <<>>]
OtherEntry(n) == [name |-> n, kind |-> "other", children |-> <<>>]   \* symlink, socket, ...
DirEntry(n, es) == [name |-> n, kind |-> "dir", children |-> es]

\* the name test on the last dot-segment alone
NameAllowedLastSegment(name, allowed) == ToLowerCase(ExtName(name)) \in allowed

\* the test scanDirectory applies to a regular file's name
NameAllowed(name, allowed) ==
    IF EndsWith(name, S_geojson) /\ S_geojson \in allowed THEN TRUE
    ELSE ToLowerCase(ExtName(name)) \in allowed

\* scanDirectory with the recursion made whatever the flag says
RECURSIVE ScanAlwaysDescends(_, _, _, _, _)
ScanAlwaysDescends(dir, entries, i, recursive, allowed) ==
    IF i > Len(entries) THEN <<>>
    ELSE LET entry == entries[i]
             fullPath == PathJoin(dir, entry.name)
             here == IF entry.kind = "dir"
                       THEN ScanAlwaysDescends(fullPath, entry.children, 1, recursive, allowed)
                     ELSE IF entry.kind = "file" /\ NameAllowed(entry.name, allowed)
                       THEN <<fullPath>>
                     ELSE <<>>
         IN  here \o ScanAlwaysDescends(dir, entries, i + 1, recursive, allowed)

\* scanDirectory(dir): the paths pushed to projectFiles for entries i.. of dir,
\* in the order of the listing, depth first
RECURSIVE ScanDirectory(_, _, _, _, _)
ScanDirectory(dir, entries, i, recursive, allowed) ==
    IF i > Len(entries) THEN <<>>
    ELSE LET entry == entries[i]
             fullPath == PathJoin(dir, entry.name)
             here == IF entry.kind = "dir" /\ recursive
                       THEN ScanDirectory(fullPath, entry.children, 1, recursive, allowed)
                     ELSE IF entry.kind = "file" /\ NameAllowed(entry.name, allowed)
                       THEN <<fullPath>>
                     ELSE <<>>
         IN  here \o ScanDirectory(dir, entries, i + 1, recursive, allowed)

\* Folder listings: an optional first entry, an optional subdirectory, an
\* optional last entry; names within a listing are distinct.
FirstSlot == {<<>>, <<FileEntry(<<"a">> \o S_json)>>, <<FileEntry(<<"a">> \o S_txt)>>}
LastSlot == {<<>>, <<FileEntry(<<"b">> \o S_geojson)>>, <<OtherEntry(<<"l">> \o S_json)>>}

RECURSIVE Listings(_)
Listings(d) ==
    LET flat == {f \o l : f \in FirstSlot, l \in LastSlot}
    IN  IF d = 0 THEN flat
        ELSE flat \cup {f \o <<DirEntry(<<"d">>, c)>> \o l :
                            f \in FirstSlot, l \in LastSlot, c \in Listings(d - 1)}

RootDir == <<"/", "r">>
ExtensionArgs == {PROJECT_EXTENSIONS, {S_geojson}, {S_json, S_txt}}

InitScan ==
    /\ projects = <<>>
    /\ active = None
    /\ inv = <<>>
    /\ pending = 0
    /\ \E k \in {"dir", "file", "missing"}, rec \in BOOLEAN, ext \in ExtensionArgs :
         \E t \in (IF k = "dir" THEN Listings(MaxDepth) ELSE {<<>>}) :
            arg = [op |-> "scan", folderKind |-> k, tree |-> t, recursive |-> rec,
                   allowed |-> ext]
    /\ ret = NoRet

\* open_projects_from_folder up to the end of the scan: the two folder
\* checks, then scanDirectory(folder)
ScanFolder ==
    /\ arg.op = "scan"
    /\ ret = NoRet
    /\ ret' =
         IF arg.folderKind = "missing" THEN [status |-> "error", msg |-> "Folder not found"]
         ELSE IF arg.folderKind # "dir"
           THEN [status |-> "error", msg |-> "Path is not a directory"]
         ELSE [status |-> "scanned",
               projectFiles |-> ScanDirectory(RootDir, arg.tree, 1, arg.recursive, arg.allowed)]
    /\ UNCHANGED <<projects, active, inv, pending, arg>>

NextScan == ScanFolder

SpecScan == InitScan /\ [][NextScan]_vars

\* Positions of a listing: index paths from the root listing down
RECURSIVE Positions(_)
Positions(entries) ==
    {<<i>> : i \in 1..Len(entries)} \cup
    UNION {{<<i>> \o q : q \in Positions(entries[i].children)} : i \in 1..Len(entries)}

RECURSIVE EntryAt(_, _)
EntryAt(entries, pos) ==
    IF Len(pos) = 1 THEN entries[pos[1]]
    ELSE EntryAt(entries[pos[1]].children, Tail(pos))

RECURSIVE PathAt(_, _, _)
PathAt(dir, entries, pos) ==
    IF Len(pos) = 1 THEN PathJoin(dir, entries[pos[1]].name)
    ELSE PathAt(PathJoin(dir, entries[pos[1]].name), entries[pos[1]].children, Tail(pos))

\* the matching regular files at nesting depth at most maxLen below the root
MatchingPositions(maxLen) ==
    {q \in Positions(arg.tree) :
        /\ Len(q) <= maxLen
        /\ EntryAt(arg.tree, q).kind = "file"
        /\ NameAllowed(EntryAt(arg.tree, q).name, arg.allowed)}

Range(f) == {f[i] : i \in DOMAIN f}

\* C7: with recursive = false the discovered files are exactly the matching
\* files that are direct entries of the root; with recursive = true they are
\* the matching files at every depth; each is listed exactly once.
C7_ScannerRecursion ==
    (ret.status = "scanned") =>
        LET want == MatchingPositions(IF arg.recursive THEN MaxDepth + 1 ELSE 1)
        IN  /\ Range(ret.projectFiles) = {PathAt(RootDir, arg.tree, q) : q \in want}
            /\ Len(ret.projectFiles) = Cardinality(want)

\* a scan that skipped a nested matching file (non-recursive) ...
C7_WitnessFlat ==
    /\ ret.status = "scanned" /\ ~arg.recursive
    /\ Len(ret.projectFiles) = 2
    /\ \E q \in MatchingPositions(MaxDepth + 1) : Len(q) > 1

\* ... and one that found a file two directories down (recursive)
C7_Witness ==
    /\ ret.status = "scanned" /\ arg.recursive
    /\ \E q \in MatchingPositions(MaxDepth + 1) :
          /\ Len(q) = 3
          /\ PathAt(RootDir, arg.tree, q) \in Range(ret.projectFiles)

\* the regular files the scan visits: at any depth when recursive, else
\* the root's own entries
VisitedFiles ==
    {q \in Positions(arg.tree) :
        /\ Len(q) <= (IF arg.recursive THEN MaxDepth + 1 ELSE 1)
        /\ EntryAt(arg.tree, q).kind = "file"}

Occurrences(seq, x) == Cardinality({j \in DOMAIN seq : seq[j] = x})

\* C11: a visited file named *.geo.json is discovered whenever ".geo.json"
\* is an allowed extension, ".json" allowed or not; a file whose name ends in
\* no allowed extension is left out and the scan still succeeds; no file is
\* listed more than once, also when it matches ".geo.json" and ".json".
C11_ScannerExtensionFilter ==
    /\ (arg.op = "scan" /\ arg.folderKind = "dir" /\ ret # NoRet) => ret.status = "scanned"
    /\ (ret.status = "scanned") =>
          \A q \in VisitedFiles :
              LET name == EntryAt(arg.tree, q).name
                  full == PathAt(RootDir, arg.tree, q)
              IN  /\ (EndsWith(name, S_geojson) /\ S_geojson \in arg.allowed) =>
                         Occurrences(ret.projectFiles, full) = 1
                  /\ (\A e \in arg.allowed : ~EndsWith(ToLowerCase(name), e)) =>
                         Occurrences(ret.projectFiles, full) = 0
                  /\ Occurrences(ret.projectFiles, full) <= 1

\* only ".geo.json" is allowed: b.geo.json is listed, a.json next to it is not
C11_Witness ==
    /\ ret.status = "scanned"
    /\ arg.allowed = {S_geojson}
    /\ \E q, r \in VisitedFiles :
          /\ EndsWith(EntryAt(arg.tree, q).name, S_geojson)
          /\ PathAt(RootDir, arg.tree, q) \in Range(ret.projectFiles)
          /\ EntryAt(arg.tree, r).name = <<"a">> \o S_json
          /\ PathAt(RootDir, arg.tree, r) \notin Range(ret.projectFiles)

\* the default extensions: a *.geo.json file matches both tests and is listed once
C11_WitnessBoth ==
    /\ ret.status = "scanned"
    /\ arg.allowed = PROJECT_EXTENSIONS
    /\ \E q \in VisitedFiles :
          /\ EndsWith(EntryAt(arg.tree, q).name, S_geojson)
          /\ Occurrences(ret.projectFiles, PathAt(RootDir, arg.tree, q)) = 1

\* ------------------------------------------------------------ host state
\* UUIDs the host hands out (hexadecimal, so some start with a decimal digit)
UUID_1 == <<"1", "a">>
UUID_2 == <<"2", "b">>
UUID_c == <<"c", "4">>
UUIDs == {UUID_1, UUID_2, UUID_a, UUID_c}

DigitChars == <<"0", "1", "2", "3", "4", "5", "6", "7", "8", "9">>
Digits == Range(DigitChars)
DigitVal(c) == (CHOOSE n \in 1..10 : DigitChars[n] = c) - 1

RECURSIVE Decimal(_)
Decimal(n) ==
    IF n < 10 THEN <<DigitChars[n + 1]>>
    ELSE Decimal(n \div 10) \o <<DigitChars[(n % 10) + 1]>>

RECURSIVE DigitRun(_, _, _)
DigitRun(s, i, acc) ==
    IF i > Len(s) \/ s[i] \notin Digits THEN acc
    ELSE DigitRun(s, i + 1, acc * 10 + DigitVal(s[i]))

\* parseInt(s, 10): leading white space skipped, an optional sign, then the
\* longest run of decimal digits; NaN when that run is empty. What follows
\* the digits is ignored.
ParseInt(s) ==
    LET nonWs == {i \in 1..Len(s) : s[i] # " "}
        start == IF nonWs = {} THEN Len(s) + 1 ELSE CHOOSE i \in nonWs : \A j \in nonWs : i <= j
        signed == start <= Len(s) /\ s[start] \in {"-", "+"}
        first == IF signed THEN start + 1 ELSE start
        mag == DigitRun(s, first, 0)
    IN  IF first > Len(s) \/ s[first] \notin Digits THEN [nan |-> TRUE, val |-> 0]
        ELSE [nan |-> FALSE, val |-> IF signed /\ s[start] = "-" THEN 0 - mag ELSE mag]

\* projects.find((p) => p.uuid === id): the first match, or None (undefined)
FindByUuid(projs, id) ==
    LET hits == {i \in 1..Len(projs) : projs[i] = id}
    IN  IF hits = {} THEN None ELSE projs[CHOOSE i \in hits : \A j \in hits : i <= j]

\* switch_project: index first (parseInt), else UUID lookup
SwitchTarget(projs, identifier) ==
    LET index == ParseInt(identifier)
    IN  IF ~index.nan /\ index.val >= 1 /\ index.val <= Len(projs)
          THEN projs[index.val]
        ELSE FindByUuid(projs, identifier)

\* JavaScript truthiness of the optional uuid argument: undefined and "" are falsy
Truthy(str) == str # None /\ str # <<>>

\* close_project: the project to close, or the error it ends in
CloseTarget(projs, act, uuid) ==
    IF Truthy(uuid)
      THEN LET t == FindByUuid(projs, uuid)
           IN  IF t = None THEN [err |-> "Project not found", target |-> None]
               ELSE [err |-> "", target |-> t]
    ELSE IF act = None THEN [err |-> "No active project to close", target |-> None]
    ELSE [err |-> "", target |-> act]

Remove(seq, x) == SelectSeq(seq, LAMBDA y : y # x)

\* ----------------------------------------------------- the host's files
Path_a == RootDir \o S_slash \o <<"a">> \o S_bbmodel
Path_b == RootDir \o S_slash \o <<"b">> \o S_json
Path_d == RootDir \o <<"/", "d">>
Path_c == Path_d \o S_slash \o <<"c">> \o S_geojson
Path_e == Path_d \o S_slash \o <<"e">> \o S_jem
Path_missing == <<"/", "x">>

HostSubTree == <<FileEntry(<<"c">> \o S_geojson), FileEntry(<<"e">> \o S_jem)>>
HostTree ==
    <<FileEntry(<<"a">> \o S_bbmodel), FileEntry(<<"b">> \o S_json), DirEntry(<<"d">>, HostSubTree)>>

\* fs.existsSync / fs.statSync(...).isDirectory()
PathKind(path) ==
    IF path \in {RootDir, Path_d} THEN "dir"
    ELSE IF path \in {Path_a, Path_b, Path_c, Path_e} THEN "file"
    ELSE "missing"

Listing(path) == IF path = RootDir THEN HostTree ELSE HostSubTree

ObjectContent(t, g) ==
    [isNull |-> FALSE, tag |-> t, geo |-> g, ver |-> g, elements |-> "absent", textures |-> FALSE]

\* JSON.parse of the file's text: valid is FALSE when it throws
FileParsed(path) ==
    IF path = Path_a THEN [valid |-> TRUE, value |-> ObjectContent("known", FALSE)]
    ELSE IF path = Path_b THEN [valid |-> FALSE, value |-> NullContent]
    ELSE IF path = Path_c THEN [valid |-> TRUE, value |-> ObjectContent("absent", TRUE)]
    ELSE [valid |-> TRUE, value |-> ObjectContent("absent", FALSE)]

\* ------------------------------------------------ invocations in flight
NoOut == [status |-> "none", msg |-> ""]
NoLoc ==
    [target |-> None, binding |-> NotRun, files |-> <<>>, k |-> 0,
     results |-> <<>>, errors |-> <<>>]
\* the optional extensions argument: omitted (undefined), or the list given
Omitted == [given |-> FALSE, list |-> {}]
Given(list) == [given |-> TRUE, list |-> list]

NoReq ==
    [tool |-> "none", ident |-> None, force |-> FALSE, path |-> None,
     recursive |-> FALSE, extensions |-> Omitted]

IdleFrame == [pc |-> "idle", a |-> NoReq, loc |-> NoLoc, pre |-> None, seen |-> None, out |-> NoOut]

Slots == 1..MaxInv

Identifiers ==
    UUIDs \cup {Decimal(n) : n \in 0..(MaxProjects + 1)}
          \cup {<<>>, <<"z", "z">>, <<"1", "x">>, <<"-", "1">>}

SwitchRequests == {[NoReq EXCEPT !.tool = "switch_project", !.ident = id] : id \in Identifiers}
CloseRequests ==
    {[NoReq EXCEPT !.tool = "close_project", !.ident = id, !.force = f] :
        id \in UUIDs \cup {None, <<>>, <<"z", "z">>}, f \in BOOLEAN}
OpenRequests ==
    {[NoReq EXCEPT !.tool = "open_project", !.path = q] :
        q \in {Path_a, Path_b, Path_c, Path_e, Path_missing}}
FolderRequests ==
    {[NoReq EXCEPT !.tool = "open_projects_from_folder", !.path = q, !.recursive = r,
                   !.extensions = e] :
        q \in {RootDir, Path_d, Path_a, Path_missing}, r \in BOOLEAN, e \in {Omitted, Given({S_txt})}}
CreateRequests == {[NoReq EXCEPT !.tool = "create_project"]}

\* allowedExtensions = extensions ?? PROJECT_EXTENSIONS
AllowedExtensions(extensions) ==
    IF extensions.given THEN extensions.list ELSE PROJECT_EXTENSIONS

Discovered(req) ==
    IF PathKind(req.path) # "dir" THEN <<>>
    ELSE ScanDirectory(req.path, Listing(req.path), 1, req.recursive,
                       AllowedExtensions(req.extensions))

\* projects a request may add to the host at most
MayCreate(req) ==
    IF req.tool \in {"open_project", "create_project"} THEN 1
    ELSE IF req.tool = "open_projects_from_folder"
      THEN LET fs == Discovered(req)
           IN  Cardinality({j \in 1..Len(fs) :
                   /\ FileParsed(fs[j]).valid
                   /\ ResolveFolderFile(fs[j], FileParsed(fs[j]).value, arg.optifine).kind
                        = "binding"})
    ELSE 0

Host == [projects |-> projects, active |-> active]

StartPc(tool) ==
    CASE tool = "switch_project" -> "sw_resolve"
      [] tool = "close_project" -> "cl_resolve"
      [] tool = "open_project" -> "op_read"
      [] tool = "open_projects_from_folder" -> "fo_scan"
      [] tool = "create_project" -> "cr_new"

\* The program points at which a handler gives the event loop back before it
\* returns: the await expressions of the execute bodies. There are none.
AwaitPoints_AfterNewProject == {"op_parse", "fo_parse", "sw_select", "cl_close"}

AwaitPoints == {}

\* JavaScript runs a handler's synchronous code to its next await or its end
\* before any other callback: slot i may run when no other frame is in
\* synchronous code.
OthersSuspended(i) == \A j \in Slots \ {i} : inv[j].pc \in {"idle"} \cup AwaitPoints

Running(i) == inv[i].pc # "idle" /\ OthersSuspended(i)

InitHosts ==
    {h \in [projects : UNION {[1..n -> UUIDs] : n \in 0..MaxProjects}, active : UUIDs \cup {None}] :
        /\ \A i, j \in 1..Len(h.projects) : i # j => h.projects[i] # h.projects[j]
        /\ h.active # None => h.active \in Range(h.projects)}

Init ==
    /\ \E h \in InitHosts : projects = h.projects /\ active = h.active
    /\ inv = [i \in Slots |-> IdleFrame]
    /\ pending = 0
    /\ arg \in [op : {"host"}, optifine : BOOLEAN]
    /\ ret = NoRet

\* the agent sends one more request
Request ==
    /\ pending + Cardinality({i \in Slots : inv[i].pc # "idle"}) < MaxInv
    /\ pending' = pending + 1
    /\ UNCHANGED <<projects, active, inv, arg, ret>>

\* a queued request's handler is called
Dispatch(i) ==
    /\ pending > 0
    /\ inv[i].pc = "idle"
    /\ \A j \in Slots : j < i => inv[j].pc # "idle"
    /\ OthersSuspended(i)
    /\ \E req \in SwitchRequests \cup CloseRequests \cup OpenRequests \cup FolderRequests
                    \cup CreateRequests :
         /\ Len(projects) + MayCreate(req) <= MaxProjects
         /\ inv' = [inv EXCEPT ![i] =
                      [pc |-> StartPc(req.tool), a |-> req, loc |-> NoLoc, pre |-> Host,
                       seen |-> Host, out |-> NoOut]]
    /\ pending' = pending - 1
    /\ UNCHANGED <<projects, active, arg, ret>>

\* the frame after a step that leaves the host as h
Moved(f, pc, h) == [f EXCEPT !.pc = pc, !.seen = h]
Failed(f, msg, h) == [f EXCEPT !.pc = "done", !.seen = h, !.out = [status |-> "error", msg |-> msg]]
Succeeded(f, msg, h) == [f EXCEPT !.pc = "done", !.seen = h, !.out = [status |-> "ok", msg |-> msg]]

\* the handler's promise settles and its frame is gone
Return(i) ==
    /\ Running(i)
    /\ inv[i].pc = "done"
    /\ inv' = [inv EXCEPT ![i] = IdleFrame]
    /\ UNCHANGED <<projects, active, pending, arg, ret>>

\* ---------------------------------------------------------- switch_project
SwitchResolve(i) ==
    LET f == inv[i]
        t == SwitchTarget(projects, f.a.ident)
    IN  /\ Running(i)
        /\ f.pc = "sw_resolve"
        /\ inv' = [inv EXCEPT ![i] =
                     IF Len(projects) = 0 THEN Failed(f, "No projects are currently open", Host)
                     ELSE IF t = None THEN Failed(f, "Project not found", Host)
                     ELSE Moved([f EXCEPT !.loc.target = t], "sw_select", Host)]
        /\ UNCHANGED <<projects, active, pending, arg, ret>>

\* targetProject.select()
SwitchSelect(i) ==
    LET f == inv[i]
    IN  /\ Running(i)
        /\ f.pc = "sw_select"
        /\ active' = f.loc.target
        /\ inv' = [inv EXCEPT ![i] =
                     Succeeded(f, "Switched to project", [projects |-> projects, active |-> f.loc.target])]
        /\ UNCHANGED <<projects, pending, arg, ret>>

\* ----------------------------------------------------------- close_project
CloseResolve(i) ==
    LET f == inv[i]
        r == CloseTarget(projects, active, f.a.ident)
    IN  /\ Running(i)
        /\ f.pc = "cl_resolve"
        /\ inv' = [inv EXCEPT ![i] =
                     IF Len(projects) = 0 THEN Failed(f, "No projects are currently open", Host)
                     ELSE IF r.err # "" THEN Failed(f, r.err, Host)
                     ELSE Moved([f EXCEPT !.loc.target = r.target], "cl_close", Host)]
        /\ UNCHANGED <<projects, active, pending, arg, ret>>

\* targetProject.close(force): the host closes the tab, and picks the next
\* active project when the closed one was active; without force the host may
\* keep the project open (unsaved changes, the user cancels)
CloseClose(i) ==
    LET f == inv[i]
        t == f.loc.target
        rest == Remove(projects, t)
    IN  /\ Running(i)
        /\ f.pc = "cl_close"
        /\ \E closes \in (IF f.a.force THEN {TRUE} ELSE BOOLEAN) :
           \E next \in (IF rest = <<>> THEN {None} ELSE Range(rest)) :
             LET h == IF ~closes THEN Host
                      ELSE [projects |-> rest, active |-> IF active = t THEN next ELSE active]
             IN  /\ projects' = h.projects
                 /\ active' = h.active
                 /\ inv' = [inv EXCEPT ![i] = Succeeded(f, "Closed project", h)]
        /\ UNCHANGED <<pending, arg, ret>>

\* ------------------------------------------------------------- newProject
\* newProject(format) in the host: a new project with a fresh UUID is appended
\* and made active; the host may also return false or throw, creating nothing
NewProjectResults ==
    {[outcome |-> "false", host |-> Host], [outcome |-> "throw", host |-> Host]} \cup
    {[outcome |-> "ok", host |-> [projects |-> Append(projects, u), active |-> u]] :
        u \in UUIDs \ Range(projects)}

\* ---------------------------------------------------------- create_project
CreateNew(i) ==
    LET f == inv[i]
    IN  /\ Running(i)
        /\ f.pc = "cr_new"
        /\ \E nr \in NewProjectResults :
             /\ projects' = nr.host.projects
             /\ active' = nr.host.active
             /\ inv' = [inv EXCEPT ![i] =
                          IF nr.outcome = "throw" THEN Failed(f, "newProject threw", nr.host)
                          ELSE IF nr.outcome = "false"
                            THEN Failed(f, "Failed to create project", nr.host)
                          ELSE Succeeded(f, "Created project", nr.host)]
        /\ UNCHANGED <<pending, arg, ret>>

\* ------------------------------------------------------------ open_project
\* existsSync, readFileSync, JSON.parse and the codec/format chain
OpenRead(i) ==
    LET f == inv[i]
        path == f.a.path
        text == FileParsed(path)
        r == ResolveOpenProject(path, text.value, arg.optifine)
    IN  /\ Running(i)
        /\ f.pc = "op_read"
        /\ \E readable \in BOOLEAN :
             inv' = [inv EXCEPT ![i] =
                       IF PathKind(path) = "missing" THEN Failed(f, "File not found", Host)
                       ELSE IF ~readable THEN Failed(f, "readFileSync threw", Host)
                       ELSE IF ~text.valid
                         THEN Failed(f, "Failed to parse file as JSON", Host)
                       ELSE IF r.kind = "error" THEN Failed(f, r.msg, Host)
                       ELSE Moved([f EXCEPT !.loc.binding = r], "op_new", Host)]
        /\ UNCHANGED <<projects, active, pending, arg, ret>>

\* newProject(format); its return value is not looked at
OpenNew(i) ==
    LET f == inv[i]
    IN  /\ Running(i)
        /\ f.pc = "op_new"
        /\ \E nr \in NewProjectResults :
             /\ projects' = nr.host.projects
             /\ active' = nr.host.active
             /\ inv' = [inv EXCEPT ![i] =
                          IF nr.outcome = "throw" THEN Failed(f, "newProject threw", nr.host)
                          ELSE Moved(f, "op_parse", nr.host)]
        /\ UNCHANGED <<pending, arg, ret>>

\* codec.parse(parsed, path), then the return
OpenParse(i) ==
    LET f == inv[i]
    IN  /\ Running(i)
        /\ f.pc = "op_parse"
        /\ \E parses \in BOOLEAN :
             inv' = [inv EXCEPT ![i] =
                       IF parses THEN Succeeded(f, "Opened project", Host)
                       ELSE Failed(f, "codec.parse threw", Host)]
        /\ UNCHANGED <<projects, active, pending, arg, ret>>

\* ----------------------------------------------- open_projects_from_folder
FolderScan(i) ==
    LET f == inv[i]
        files == Discovered(f.a)
    IN  /\ Running(i)
        /\ f.pc = "fo_scan"
        /\ inv' = [inv EXCEPT ![i] =
                     IF PathKind(f.a.path) = "missing" THEN Failed(f, "Folder not found", Host)
                     ELSE IF PathKind(f.a.path) # "dir"
                       THEN Failed(f, "Path is not a directory", Host)
                     ELSE IF Len(files) = 0 THEN Succeeded(f, "No project files found", Host)
                     ELSE Moved([f EXCEPT !.loc.files = files, !.loc.k = 1], "fo_file", Host)]
        /\ UNCHANGED <<projects, active, pending, arg, ret>>

\* the end of one iteration of the for loop: the next file, or after the last
\* one the report with both counts
NextFile(f, h) ==
    IF f.loc.k < Len(f.loc.files) THEN Moved([f EXCEPT !.loc.k = @ + 1], "fo_file", h)
    ELSE Succeeded(f, "Opened project(s) from", h)

\* the frame with one more entry in errors (errors.push; continue / catch)
ErrorsPushDropped(f, why) == f

ErrorsPush(f, why) ==
    [f EXCEPT !.loc.errors = Append(@, [file |-> f.loc.files[f.loc.k], why |-> why])]

\* results.push(pathModule.basename(filePath))
ResultsPush(f) == [f EXCEPT !.loc.results = Append(@, Basename(f.loc.files[f.loc.k]))]

\* readFileSync, JSON.parse and the codec/format chain for file k
FolderFile(i) ==
    LET f == inv[i]
        filePath == f.loc.files[f.loc.k]
        text == FileParsed(filePath)
        r == ResolveFolderFile(filePath, text.value, arg.optifine)
    IN  /\ Running(i)
        /\ f.pc = "fo_file"
        /\ \E readable \in BOOLEAN :
             inv' = [inv EXCEPT ![i] =
                       IF ~readable
                         THEN NextFile(ErrorsPush(f, "Error opening: readFileSync threw"), Host)
                       ELSE IF ~text.valid
                         THEN NextFile(ErrorsPush(f, "Failed to parse"), Host)
                       ELSE IF r.kind = "error" /\ r.msg = "TypeError"
                         THEN NextFile(ErrorsPush(f, "Error opening: TypeError"), Host)
                       ELSE IF r.kind = "error"
                         THEN NextFile(ErrorsPush(f, r.msg), Host)
                       ELSE Moved([f EXCEPT !.loc.binding = r], "fo_new", Host)]
        /\ UNCHANGED <<projects, active, pending, arg, ret>>

\* newProject(format) for file k
FolderNew(i) ==
    LET f == inv[i]
    IN  /\ Running(i)
        /\ f.pc = "fo_new"
        /\ \E nr \in NewProjectResults :
             /\ projects' = nr.host.projects
             /\ active' = nr.host.active
             /\ inv' = [inv EXCEPT ![i] =
                          IF nr.outcome = "throw"
                            THEN NextFile(ErrorsPush(f, "Error opening: newProject threw"), nr.host)
                          ELSE Moved(f, "fo_parse", nr.host)]
        /\ UNCHANGED <<pending, arg, ret>>

\* codec.parse(parsed, filePath) and results.push for file k
FolderParse(i) ==
    LET f == inv[i]
    IN  /\ Running(i)
        /\ f.pc = "fo_parse"
        /\ \E parses \in BOOLEAN :
             inv' = [inv EXCEPT ![i] =
                       IF parses THEN NextFile(ResultsPush(f), Host)
                       ELSE NextFile(ErrorsPush(f, "Error opening: codec.parse threw"), Host)]
        /\ UNCHANGED <<projects, active, pending, arg, ret>>

Next ==
    \/ Request
    \/ \E i \in Slots : Dispatch(i)
    \/ \E i \in Slots : Return(i)
    \/ \E i \in Slots : SwitchResolve(i)
    \/ \E i \in Slots : SwitchSelect(i)
    \/ \E i \in Slots : CloseResolve(i)
    \/ \E i \in Slots : CloseClose(i)
    \/ \E i \in Slots : CreateNew(i)
    \/ \E i \in Slots : OpenRead(i)
    \/ \E i \in Slots : OpenNew(i)
    \/ \E i \in Slots : OpenParse(i)
    \/ \E i \in Slots : FolderScan(i)
    \/ \E i \in Slots : FolderFile(i)
    \/ \E i \in Slots : FolderNew(i)
    \/ \E i \in Slots : FolderParse(i)

Spec == Init /\ [][Next]_vars

TypeOK ==
    /\ pending \in 0..MaxInv
    /\ Len(projects) <= MaxProjects
    /\ active \in Range(projects) \cup {None}
    /\ \A i \in Slots : inv[i].pc \in
          {"idle", "done", "sw_resolve", "sw_select", "cl_resolve", "cl_close", "cr_new",
           "op_read", "op_new", "op_parse", "fo_scan", "fo_file", "fo_new", "fo_parse"}

\* the finished invocations of a tool
Finished(tool) == {i \in Slots : inv[i].pc = "done" /\ inv[i].a.tool = tool}

\* C1: switch_project(identifier = p.uuid) selects the open project p
\* whatever its UUID starts with, and switch_project(identifier = decimal
\* string of n), 1 <= n <= number of open projects, selects the n-th one.
C1_SwitchByUuidOrIndex ==
    \A i \in Finished("switch_project") :
        LET f == inv[i]
        IN  /\ f.a.ident \in Range(f.pre.projects) =>
                  /\ f.out.status = "ok"
                  /\ f.loc.target = f.a.ident
                  /\ active = f.a.ident
            /\ \A n \in 1..Len(f.pre.projects) :
                  f.a.ident = Decimal(n) =>
                      /\ f.out.status = "ok"
                      /\ f.loc.target = f.pre.projects[n]
                      /\ active = f.pre.projects[n]

\* C8: when the identifier is neither the decimal form of an index in
\* 1..number of open projects nor the UUID of an open project, switch_project
\* ends in an error, select() is called on no project, and the active project
\* and the open-project list are what they were before the call.
C8_SwitchFailsWithoutMutation ==
    \A i \in Finished("switch_project") :
        LET f == inv[i]
        IN  (/\ f.a.ident \notin Range(f.pre.projects)
             /\ f.a.ident \notin {Decimal(n) : n \in 1..Len(f.pre.projects)}) =>
                /\ f.out.status = "error"
                /\ f.loc.target = None
                /\ Host = f.pre

\* C9: with a uuid argument, close() is called on exactly the open project
\* with that UUID, and a uuid that is the UUID of no open project (the empty
\* string included) ends in an error with no project closed; only an omitted
\* uuid closes the active project.
C9_CloseResolvesBeforeMutating ==
    \A i \in Finished("close_project") :
        LET f == inv[i]
        IN  f.a.ident # None =>
               /\ f.a.ident \in Range(f.pre.projects) => f.loc.target = f.a.ident
               /\ f.a.ident \notin Range(f.pre.projects) =>
                     /\ f.out.status = "error"
                     /\ f.loc.target = None
                     /\ Host = f.pre

Count(seq, Test(_)) == Cardinality({j \in DOMAIN seq : Test(seq[j])})

\* C4: when open_projects_from_folder has discovered files, it ends with a
\* report in which every discovered file is recorded exactly once, as a
\* success or as an error, so the two counts add up to the number of files,
\* whichever files failed.
C4_BatchRecordsEveryFileOnce ==
    \A i \in Finished("open_projects_from_folder") :
        LET f == inv[i]
            files == f.loc.files
        IN  Len(files) > 0 =>
               /\ f.out.status = "ok"
               /\ Len(f.loc.results) + Len(f.loc.errors) = Len(files)
               /\ \A j \in DOMAIN files :
                     Count(f.loc.errors, LAMBDA e : e.file = files[j])
                       + Count(f.loc.results, LAMBDA r : r = Basename(files[j])) = 1

\* a batch of four files whose second file failed and whose third was opened
C4_Witness ==
    \E i \in Finished("open_projects_from_folder") :
        LET f == inv[i]
        IN  /\ Len(f.loc.files) = 4
            /\ \E e \in DOMAIN f.loc.errors : f.loc.errors[e].file = f.loc.files[2]
            /\ \E r \in DOMAIN f.loc.results : f.loc.results[r] = Basename(f.loc.files[3])
            /\ Len(f.loc.results) = 2

InFlight == {i \in Slots : inv[i].pc # "idle"}

\* C10: at most one handler is between its first step and its return, and a
\* handler finds the host's open projects and active project as its own last
\* step left them.
C10_HandlersDoNotInterleave ==
    /\ Cardinality(InFlight) <= 1
    /\ \A i \in InFlight : inv[i].seen = Host

\* a second request is waiting while a handler sits between newProject and
\* codec.parse
C10_Witness ==
    /\ pending > 0
    /\ \E i \in InFlight :
          /\ inv[i].pc \in {"op_parse", "fo_parse"}
          /\ inv[i].pre # Host

\* C13: an open_project call that ends in an error leaves the open-project
\* list and the active project as they were before the call, and after
\* open_projects_from_folder the number of projects the host gained equals
\* the number of files reported as opened.
C13_FailedOpenCreatesNoProject ==
    /\ \A i \in Finished("open_project") :
          inv[i].out.status = "error" => Host = inv[i].pre
    /\ \A i \in Finished("open_projects_from_folder") :
          Len(projects) - Len(inv[i].pre.projects) = Len(inv[i].loc.results)

====
